---------------------------- MODULE Spec2Model ----------------------------
(***************************************************************************)
(* A model of StoryFlux's video composition engine                         *)
(* (src/scripts/video_generator.py, class VideoGenerator).                 *)
(*                                                                         *)
(* Text.  A narration text is a sequence of tokens.  Each token stands for *)
(* a concrete piece of a Python string:                                    *)
(*    "w"   a one-letter word                                              *)
(*    "P"   a phrase of PhraseWords one-letter words separated by single   *)
(*          spaces (it starts and ends with a letter)                      *)
(*    "T"   such a phrase of ten words (used in the example texts only)    *)
(*    " "   a space            "\n"  a newline         "."  a full stop    *)
(* so every sequence of tokens is a real string and str.split, str.strip,  *)
(* len and re.split are computed on it as Python computes them.            *)
(*                                                                         *)
(* Numbers.  Python floats are modelled in fixed point, every operation    *)
(* rounded to the nearest unit: a time is a number of 1/TimeScale seconds  *)
(* and word_ratio a number of 1/RatioScale.                                *)
(***************************************************************************)
EXTENDS Integers, Sequences, FiniteSets, TLC

\* ------------------------------------------------------------ bounds
\* longest enumerated narration text, in tokens
MaxLen == 7
\* entries of self.music_search_queries that are modelled
MaxQuery == 1
\* track ids the primary music provider may return
MaxTrackId == 2
\* sound ids the secondary music provider may return
MaxSoundId == 1
\* successive calls of _get_background_music
MaxCalls == 2
\* words in the phrase token "P"
PhraseWords == 29

\* ------------------------------------------------- program constants
\* "if len(segments) < 3"
MinSegments == 3
\* "len(s.strip()) > 20"
MinLineChars == 20
\* "current_words >= 30"
MaxSegmentWords == 30
\* "len(current_segment) >= 3"
MaxSegmentSentences == 3

\* units of time per second (resolution of the modelled float durations)
TimeScale == 100
\* units of word_ratio per 1.0 (resolution of the modelled float ratio)
RatioScale == 262144
\* "abs(duration_diff) > 0.1"
Tolerance == TimeScale \div 10

NL == "\n"
Alphabet == {"w", "P", " ", NL, "."}

VARIABLES
    pc,                  \* position in the operation being run
    script,              \* script_data['script']
    duration,            \* audio.duration, in time units
    segments,            \* result of _parse_script_segments
    segment_durations,   \* segment_durations of _create_clips_with_typewriter
    pexels_api_key,      \* whether PEXELS_API_KEY is set
    pixabay_api_key,     \* whether PIXABAY_API_KEY is set
    freesound_api_key,   \* whether FREESOUND_API_KEY is set
    use_background_music,\* self.use_background_music
    music_dir,           \* assets/music: the state of each file
    image_dir,           \* assets/images: how often pexels_<i>.jpg was written
    photos,              \* len(photos) of _download_pexels_images
    image_paths,         \* image_paths: the indices i of pexels_<i>.jpg
    existing_music,      \* existing_music of _get_background_music
    query,               \* the query of _search_pixabay_music
    selected,            \* the file of the selected track
    music_path,          \* music_path
    background_music,    \* the clip _get_background_music returns, or None
    audio,               \* the audio create_video attaches to the video
    clips,               \* the list _create_clips_with_typewriter returns
    video,               \* the concatenated video, or None
    handles,             \* the media objects that are open
    calls,               \* calls of _get_background_music so far
    events,              \* what has happened so far: requests, lookups, results
    runs,                \* the runs that share the cache directories
    caption,             \* the caption line _create_text_image_clip places
    picture,             \* the image _create_image_clip_with_effects works on
    batch                \* the videos of one invocation of main

allocVars == <<pc, script, duration, segments, segment_durations>>

configVars == <<pexels_api_key, pixabay_api_key, freesound_api_key, use_background_music>>

imageVars == <<image_dir, photos, image_paths>>

musicVars == <<existing_music, query, selected, music_path, background_music, calls>>

renderVars == <<audio, clips, video, handles>>

\* the variables of the specifications of concurrent runs, of the caption,
\* of the image clip and of the orchestrator
asideVars == <<runs, caption, picture, batch>>

vars == <<allocVars, configVars, music_dir, imageVars, musicVars, renderVars,
          events, asideVars>>

\* ------------------------------------------------------------- strings
IsSpace(c) == c \in {" ", NL}

\* the number of words a token consists of (0 for whitespace)
TokenWords(c) ==
    IF IsSpace(c) THEN 0
    ELSE IF c = "P" THEN PhraseWords
    ELSE IF c = "T" THEN 10
    ELSE 1

\* len() of one token
CharLen(c) == IF IsSpace(c) THEN 1 ELSE 2 * TokenWords(c) - 1

RECURSIVE StrLen(_)
\* len(s)
StrLen(s) == IF s = <<>> THEN 0 ELSE CharLen(Head(s)) + StrLen(Tail(s))

RECURSIVE LStrip(_)
LStrip(s) == IF s # <<>> /\ IsSpace(Head(s)) THEN LStrip(Tail(s)) ELSE s

RECURSIVE RStrip(_)
RStrip(s) ==
    IF s # <<>> /\ IsSpace(s[Len(s)]) THEN RStrip(SubSeq(s, 1, Len(s) - 1)) ELSE s

\* s.strip()
Strip(s) == RStrip(LStrip(s))

RECURSIVE SumTo(_, _)
\* f[1] + ... + f[n]
SumTo(f, n) == IF n = 0 THEN 0 ELSE f[n] + SumTo(f, n - 1)

\* len(s.split()): the number of maximal runs of non-whitespace characters
\* (two adjacent tokens without whitespace between them share one word)
WordCount(s) ==
    LET starts == {i \in 1..Len(s) : ~IsSpace(s[i]) /\ (i = 1 \/ IsSpace(s[i-1]))}
        inner  == [i \in 1..Len(s) |-> IF IsSpace(s[i]) THEN 0 ELSE TokenWords(s[i]) - 1]
    IN  Cardinality(starts) + SumTo(inner, Len(s))

RECURSIVE SplitParagraphs(_, _, _)
\* script.split('\n\n') from position i on, cur being the piece collected so far
SplitParagraphs(s, i, cur) ==
    IF i > Len(s) THEN <<cur>>
    ELSE IF i < Len(s) /\ s[i] = NL /\ s[i+1] = NL
         THEN <<cur>> \o SplitParagraphs(s, i + 2, <<>>)
         ELSE SplitParagraphs(s, i + 1, Append(cur, s[i]))

RECURSIVE SplitLines(_, _, _)
\* script.split('\n')
SplitLines(s, i, cur) ==
    IF i > Len(s) THEN <<cur>>
    ELSE IF s[i] = NL
         THEN <<cur>> \o SplitLines(s, i + 1, <<>>)
         ELSE SplitLines(s, i + 1, Append(cur, s[i]))

RECURSIVE SkipSpace(_, _)
\* the first position at or after i that holds no whitespace
SkipSpace(s, i) == IF i <= Len(s) /\ IsSpace(s[i]) THEN SkipSpace(s, i + 1) ELSE i

RECURSIVE SplitSentences(_, _, _)
\* re.split(r'(?<=[.!?])\s+', script): a separator is a maximal run of
\* whitespace that directly follows a sentence terminator
SplitSentences(s, i, cur) ==
    IF i > Len(s) THEN <<cur>>
    ELSE IF IsSpace(s[i]) /\ i > 1 /\ s[i-1] = "."
         THEN <<cur>> \o SplitSentences(s, SkipSpace(s, i), <<>>)
         ELSE SplitSentences(s, i + 1, Append(cur, s[i]))

RECURSIVE JoinSpace(_)
\* ' '.join(parts)
JoinSpace(parts) ==
    IF parts = <<>> THEN <<>>
    ELSE IF Len(parts) = 1 THEN parts[1]
    ELSE parts[1] \o <<" ">> \o JoinSpace(Tail(parts))

RECURSIVE StrippedNonEmpty(_)
\* [s.strip() for s in pieces if s.strip()]
StrippedNonEmpty(pieces) ==
    IF pieces = <<>> THEN <<>>
    ELSE LET s == Strip(Head(pieces))
         IN  (IF s # <<>> THEN <<s>> ELSE <<>>) \o StrippedNonEmpty(Tail(pieces))

RECURSIVE StrippedLongLines(_)
\* [s.strip() for s in pieces if s.strip() and len(s.strip()) > 20]
StrippedLongLines(pieces) ==
    IF pieces = <<>> THEN <<>>
    ELSE LET s == Strip(Head(pieces))
         IN  (IF s # <<>> /\ StrLen(s) > MinLineChars THEN <<s>> ELSE <<>>)
               \o StrippedLongLines(Tail(pieces))

\* ------------------------------------------- _parse_script_segments
\* the split by paragraph breaks
ParagraphSegments(s) == StrippedNonEmpty(SplitParagraphs(s, 1, <<>>))

\* the split by single newlines
LineSegments(s) == StrippedLongLines(SplitLines(s, 1, <<>>))

RECURSIVE GroupSentencesNoFlush(_, _, _, _)
\* a loop that forgets the sentences left in current_segment at its end
GroupSentencesNoFlush(sentences, k, current_segment, current_words) ==
    IF k > Len(sentences)
    THEN <<>>
    ELSE LET sentence == sentences[k]
             seg      == Append(current_segment, sentence)
             words    == current_words + WordCount(sentence)
         IN  IF words >= MaxSegmentWords \/ Len(seg) >= MaxSegmentSentences
             THEN <<JoinSpace(seg)>> \o GroupSentencesNoFlush(sentences, k + 1, <<>>, 0)
             ELSE GroupSentencesNoFlush(sentences, k + 1, seg, words)

RECURSIVE GroupSentences(_, _, _, _)
\* the loop over sentences[k..], with its current_segment and current_words
GroupSentences(sentences, k, current_segment, current_words) ==
    IF k > Len(sentences)
    THEN (IF current_segment # <<>> THEN <<JoinSpace(current_segment)>> ELSE <<>>)
    ELSE LET sentence == sentences[k]
             seg      == Append(current_segment, sentence)
             words    == current_words + WordCount(sentence)
         IN  IF words >= MaxSegmentWords \/ Len(seg) >= MaxSegmentSentences
             THEN <<JoinSpace(seg)>> \o GroupSentences(sentences, k + 1, <<>>, 0)
             ELSE GroupSentences(sentences, k + 1, seg, words)

\* the split by sentences, grouped
SentenceSegments(s) ==
    GroupSentences(StrippedNonEmpty(SplitSentences(s, 1, <<>>)), 1, <<>>, 0)

\* a parser that goes from the paragraph split straight to the sentences
SplitSegmentsSkipsLines(s) ==
    LET paragraphs == ParagraphSegments(s)
    IN  IF Len(paragraphs) < MinSegments THEN SentenceSegments(s) ELSE paragraphs

\* the value of `segments` at the function's return statement
SplitSegments(s) ==
    LET paragraphs == ParagraphSegments(s)
        lines      == IF Len(paragraphs) < MinSegments THEN LineSegments(s)
                      ELSE paragraphs
    IN  IF Len(lines) < MinSegments THEN SentenceSegments(s) ELSE lines

\* "return segments" without the fallback to the whole script
ParseNoFallback(s) == SplitSegments(s)

\* VideoGenerator._parse_script_segments
parse_script_segments(s) ==
    LET segs == SplitSegments(s) IN IF segs # <<>> THEN segs ELSE <<s>>

\* --------------------------- segment durations (_create_clips_with_typewriter)
\* the quotient a / b rounded to the nearest unit (a >= 0, b > 0)
RoundDiv(a, b) == (a + (b \div 2)) \div b

Abs(x) == IF x < 0 THEN 0 - x ELSE x

RECURSIVE Sum(_)
\* sum(xs)
Sum(xs) == IF xs = <<>> THEN 0 ELSE Head(xs) + Sum(Tail(xs))

\* [len(seg.split()) for seg in segments]
WordCounts(segs) == [i \in 1..Len(segs) |-> WordCount(segs[i])]

\* word_ratio computed with floor division
WordRatioFloorDiv(word_count, total_words, n) ==
    IF total_words > 0 THEN (word_count \div total_words) * RatioScale
    ELSE RoundDiv(RatioScale, n)

\* word_ratio = word_count / total_words if total_words > 0 else 1.0 / len(segments)
WordRatio(word_count, total_words, n) ==
    IF total_words > 0 THEN RoundDiv(word_count * RatioScale, total_words)
    ELSE RoundDiv(RatioScale, n)

\* seg_duration = duration * word_ratio
SegDuration(d, word_ratio) == RoundDiv(d * word_ratio, RatioScale)

\* the weight of a segment taken as its length in characters
SegmentWeightChars(seg) == StrLen(seg)

\* word_count = len(segment.split())
SegmentWeight(seg) == WordCount(seg)

\* the list segment_durations after the first loop
ProportionalDurations(segs, d) ==
    LET total_words == Sum([i \in 1..Len(segs) |-> SegmentWeight(segs[i])])
    IN  [i \in 1..Len(segs) |->
            SegDuration(d, WordRatio(SegmentWeight(segs[i]), total_words, Len(segs)))]

\* the difference taken against all durations but the last
DurationDiffButLast(d, durs) == d - Sum(SubSeq(durs, 1, Len(durs) - 1))

\* duration_diff = duration - sum(segment_durations)
DurationDiff(d, durs) == d - Sum(durs)

\* segment_durations as the clips are built from it: the proportional
\* durations, the last one corrected by duration_diff when it exceeds 0.1 s
SegmentDurations(segs, d) ==
    LET durs == ProportionalDurations(segs, d)
        duration_diff == DurationDiff(d, durs)
    IN  IF Abs(duration_diff) > Tolerance
        THEN [durs EXCEPT ![Len(durs)] = @ + duration_diff]
        ELSE durs

\* --------------------------------------------------------- the inputs
RECURSIVE Words(_)
\* k one-letter words separated by single spaces
Words(k) == IF k <= 1 THEN <<"w">> ELSE <<"w", " ">> \o Words(k - 1)

\* three paragraphs of 10, 20 and 30 words
Text_10_20_30 ==
    <<"T", NL, NL, "T", " ", "T", NL, NL, "T", " ", "T", " ", "T">>

\* three two-word sentences, then one of eight words: segments of 6 and 8 words
Text_6_8 ==
    <<"w", " ", "w", ".", " ", "w", " ", "w", ".", " ", "w", " ", "w", ".", " ">>
      \o Words(8)

ExampleTexts == {Text_10_20_30, Text_6_8}

\* every text of at most MaxLen tokens, and the examples
Texts == UNION {[1..n -> Alphabet] : n \in 0..MaxLen} \cup ExampleTexts

\* audio durations: 5 s, 12.4 s, 60 s
Durations == {5 * TimeScale, (124 * TimeScale) \div 10, 60 * TimeScale}

\* ------------------------------------------------- files and events
\* no file, no path
None == <<"none", 0, 0>>

\* os.path.join(self.music_dir, f"pixabay_{safe_query}_{selected['id']}.mp3")
PixabayFile(q, id) == <<"pixabay", q, id>>

\* os.path.join(self.music_dir, f"freesound_{selected['id']}.mp3")
FreesoundFile(id) == <<"freesound", 0, id>>

\* tracks put into assets/music by hand, an .mp3 and an .m4a
UserMp3 == <<"user_mp3", 0, 0>>
UserM4a == <<"user_m4a", 0, 0>>

Queries == 1..MaxQuery
TrackIds == 1..MaxTrackId
SoundIds == 1..MaxSoundId

MusicFiles ==
    {PixabayFile(q, id) : q \in Queries, id \in TrackIds}
      \cup {FreesoundFile(id) : id \in SoundIds} \cup {UserMp3, UserM4a}

\* the extension of a file name
Extension(f) == IF f = UserM4a THEN "m4a" ELSE "mp3"

\* os.path.exists(path): a file that was opened for writing exists, however
\* little of it was written
Exists(dir, f) == dir[f] # "absent"

\* [f for f in os.listdir(self.music_dir) if f.endswith(exts)]
ListDir(dir, exts) == {f \in MusicFiles : Exists(dir, f) /\ Extension(f) \in exts}

\* the cache directories a call may find: at most one file, left by hand or
\* by an earlier call (completely or partly written)
InitialMusicDirs ==
    {[f \in MusicFiles |-> "absent"]}
      \cup {[f \in MusicFiles |-> IF f = g THEN "complete" ELSE "absent"] :
                g \in MusicFiles}
      \cup {[f \in MusicFiles |-> IF f = g THEN "partial" ELSE "absent"] :
                g \in MusicFiles \ {UserMp3, UserM4a}}

\* the files pexels_<i>.jpg of assets/images
ImageFiles == 0..2

\* assets/images without a file
NoImages == [i \in ImageFiles |-> 0]

\* one entry of the record of what happened
Event(ev, ok, file) == [call |-> calls, ev |-> ev, ok |-> ok, file |-> file]

\* no background music
NoMusic == [file |-> None, duration |-> 0, loops |-> 0, source |-> 0]

\* no video yet
NoVideo == [duration |-> 0, layers |-> <<>>]

\* the narration track: AudioFileClip(audio_path)
Narration(d) == [duration |-> d, layers |-> <<"voice">>]

Max(a, b) == IF a >= b THEN a ELSE b
Min(a, b) == IF a <= b THEN a ELSE b

\* ------------------------------------------- _download_pexels_images
\* "if not self.pexels_api_key: return []"
PexelsNoKey ==
    /\ pc = "images"
    /\ ~pexels_api_key
    /\ image_paths' = <<>>
    /\ photos' = 0
    /\ pc' = "music"
    /\ UNCHANGED <<script, duration, segments, segment_durations,
                   configVars, asideVars,
                   music_dir, image_dir, musicVars, renderVars, events>>

\* the search request: it fails, returns no photo, or returns n photos
PexelsSearch ==
    /\ pc = "images"
    /\ pexels_api_key
    /\ image_paths' = <<>>
    /\ \/ /\ events' = Append(events, Event("pexels_search", FALSE, None))
          /\ photos' = 0
          /\ pc' = "music"
       \/ /\ events' = Append(events, Event("pexels_search", TRUE, None))
          /\ \E n \in 0..(Len(segments) + 1) :
                /\ photos' = n
                /\ pc' = IF n = 0 THEN "music" ELSE "image_download"
    /\ UNCHANGED <<script, duration, segments, segment_durations,
                   configVars, asideVars,
                   music_dir, image_dir, musicVars, renderVars>>

\* an except clause that returns what was downloaded so far
PathsKeptOnFailure(paths) == paths

\* "except Exception as e: ... return []"
PathsOnFailure(paths) == <<>>

\* "with open(img_path, 'wb') as f": pexels_<i>.jpg is written, whether or
\* not it was there
Written(dir, i) == [dir EXCEPT ![i] = @ + 1]

\* one turn of "for i, photo in enumerate(photos[:count])": the download of
\* image i succeeds, the file is written and its path is appended, or it
\* fails, before the file is opened or while it is written, and [] is returned
PexelsDownload ==
    /\ pc = "image_download"
    /\ LET i     == Len(image_paths)
           count == Len(segments)
       IN  \/ /\ events' = Append(events, Event("pexels_download", TRUE, None))
              /\ image_dir' = Written(image_dir, i)
              /\ image_paths' = Append(image_paths, i)
              /\ pc' = IF i + 1 < Min(photos, count) THEN "image_download" ELSE "music"
           \/ /\ events' = Append(events, Event("pexels_download", FALSE, None))
              /\ \/ image_dir' = image_dir
                 \/ image_dir' = Written(image_dir, i)
              /\ image_paths' = PathsOnFailure(image_paths)
              /\ pc' = "music"
    /\ UNCHANGED <<script, duration, segments, segment_durations,
                   configVars, asideVars,
                   music_dir, photos, musicVars, renderVars>>

\* ----------------------------------------------- _get_background_music
\* a return that goes on with Step 5
AfterMusicSkipsMix == "clips"

\* where _get_background_music returns to: "if background_music:" of Step 4
AfterMusic == "mix"

\* a test of the flag that never finds the music disabled
MusicDisabledNever(flag) == FALSE

\* "if not self.use_background_music"
MusicDisabled(flag) == ~flag

\* "if not self.use_background_music: return None"
GetMusicDisabled ==
    /\ pc = "music"
    /\ MusicDisabled(use_background_music)
    /\ background_music' = NoMusic
    /\ calls' = calls + 1
    /\ pc' = AfterMusic
    /\ UNCHANGED <<script, duration, segments, segment_durations,
                   configVars, asideVars,
                   music_dir, imageVars, existing_music, query, selected,
                   music_path, renderVars, events>>

\* the listing of existing_music and the choice between the search and the
\* fallback
GetMusicStart ==
    /\ pc = "music"
    /\ ~MusicDisabled(use_background_music)
    /\ existing_music' = ListDir(music_dir, {"mp3", "wav", "ogg", "m4a"})
    /\ music_path' = None
    /\ calls' = calls + 1
    /\ pc' = IF pixabay_api_key THEN "pixabay_search" ELSE "music_fallback"
    /\ UNCHANGED <<script, duration, segments, segment_durations,
                   configVars, asideVars,
                   music_dir, imageVars, query, selected, background_music,
                   renderVars, events>>

\* a download whether or not the file is there
NeedsDownloadAlways(dir, file) == TRUE

\* "if not os.path.exists(music_path)"
NeedsDownload(dir, file) == ~Exists(dir, file)

\* where a failure of the Pixabay tier leads when it skips Freesound
AfterPixabayFailureSkipsFreesound == "freesound_cache"

\* a Pixabay tier that searches again after a failure
AfterPixabayFailureRetries == "pixabay_search"

\* "return self._download_from_freesound(query, min_duration)": where every
\* failure of the Pixabay tier leads
AfterPixabayFailure == "freesound"

\* _search_pixabay_music up to the choice of a track: the request fails (an
\* exception or a status other than 200), finds no hit or no hit with a url,
\* or a track is selected, whose file is already there or has to be fetched
PixabaySearch ==
    /\ pc = "pixabay_search"
    /\ \E q \in Queries :
          /\ query' = q
          /\ \/ /\ events' = Append(events, Event("pixabay_search", FALSE, None))
                /\ selected' = None
                /\ music_path' = None
                /\ pc' = AfterPixabayFailure
             \/ \E id \in TrackIds :
                   LET file == PixabayFile(q, id)
                   IN  /\ events' = Append(events, Event("pixabay_search", TRUE, file))
                       /\ selected' = file
                       /\ IF NeedsDownload(music_dir, file)
                          THEN /\ music_path' = None
                               /\ pc' = "pixabay_download"
                          ELSE /\ music_path' = file
                               /\ pc' = "music_fallback"
    /\ UNCHANGED <<script, duration, segments, segment_durations,
                   configVars, asideVars,
                   music_dir, imageVars, existing_music, background_music, calls,
                   renderVars>>

\* a download into the file: it completes, fails before the file is opened,
\* or fails after a part of the file was written
DownloadInto(file, ev, pcFailed) ==
    \/ /\ events' = Append(events, Event(ev, TRUE, file))
       /\ music_dir' = [music_dir EXCEPT ![file] = "complete"]
       /\ music_path' = file
       /\ pc' = "music_fallback"
    \/ /\ events' = Append(events, Event(ev, FALSE, file))
       /\ \/ music_dir' = music_dir
          \/ music_dir' = [music_dir EXCEPT ![file] = "partial"]
       /\ music_path' = None
       /\ pc' = pcFailed

\* "if not os.path.exists(music_path)": the download of the selected track
PixabayDownload ==
    /\ pc = "pixabay_download"
    /\ DownloadInto(selected, "pixabay_download", AfterPixabayFailure)
    /\ UNCHANGED <<script, duration, segments, segment_durations,
                   configVars, asideVars,
                   imageVars, existing_music, query, selected, background_music,
                   calls, renderVars>>

\* _download_from_freesound without FREESOUND_API_KEY
FreesoundNoKey ==
    /\ pc = "freesound"
    /\ ~freesound_api_key
    /\ pc' = "freesound_cache"
    /\ UNCHANGED <<script, duration, segments, segment_durations,
                   configVars, asideVars,
                   music_dir, imageVars, musicVars, renderVars, events>>

\* the Freesound search: it fails, finds no result or no preview url, or a
\* sound is selected, whose file is already there or has to be fetched
FreesoundSearch ==
    /\ pc = "freesound"
    /\ freesound_api_key
    /\ \/ /\ events' = Append(events, Event("freesound_search", FALSE, None))
          /\ selected' = None
          /\ music_path' = None
          /\ pc' = "freesound_cache"
       \/ \E id \in SoundIds :
             LET file == FreesoundFile(id)
             IN  /\ events' = Append(events, Event("freesound_search", TRUE, file))
                 /\ selected' = file
                 /\ IF NeedsDownload(music_dir, file)
                    THEN /\ music_path' = None
                         /\ pc' = "freesound_download"
                    ELSE /\ music_path' = file
                         /\ pc' = "music_fallback"
    /\ UNCHANGED <<script, duration, segments, segment_durations,
                   configVars, asideVars,
                   music_dir, imageVars, existing_music, query, background_music,
                   calls, renderVars>>

\* the download of the selected Freesound preview
FreesoundDownload ==
    /\ pc = "freesound_download"
    /\ DownloadInto(selected, "freesound_download", "freesound_cache")
    /\ UNCHANGED <<script, duration, segments, segment_durations,
                   configVars, asideVars,
                   imageVars, existing_music, query, selected, background_music,
                   calls, renderVars>>

\* "Final fallback: use any existing music in the cache", the end of
\* _download_from_freesound
FreesoundCache ==
    /\ pc = "freesound_cache"
    /\ LET existing == ListDir(music_dir, {"mp3", "wav", "ogg"})
       IN  IF existing # {}
           THEN \E f \in existing :
                   /\ music_path' = f
                   /\ events' = Append(events, Event("freesound_cache", TRUE, f))
           ELSE /\ music_path' = None
                /\ events' = Append(events, Event("freesound_cache", FALSE, None))
    /\ pc' = "music_fallback"
    /\ UNCHANGED <<script, duration, segments, segment_durations,
                   configVars, asideVars,
                   music_dir, imageVars, existing_music, query, selected,
                   background_music, calls, renderVars>>

\* "Fallback to existing music if API fails or no key", and the return of
\* None when there is none
MusicFallback ==
    /\ pc = "music_fallback"
    /\ IF music_path = None /\ existing_music # {}
       THEN /\ \E f \in existing_music :
                  /\ music_path' = f
                  /\ events' = Append(events, Event("cached_music", TRUE, f))
            /\ pc' = "music_load"
            /\ UNCHANGED background_music
       ELSE IF music_path = None
       THEN /\ events' = Append(events, Event("no_music", TRUE, None))
            /\ background_music' = NoMusic
            /\ pc' = AfterMusic
            /\ UNCHANGED music_path
       ELSE /\ pc' = "music_load"
            /\ UNCHANGED <<music_path, background_music, events>>
    /\ UNCHANGED <<script, duration, segments, segment_durations,
                   configVars, asideVars,
                   music_dir, imageVars, existing_music, query, selected, calls,
                   renderVars>>

\* the lengths music.duration of the track files, in time units
TrackLengths == {3 * TimeScale, 7 * TimeScale, 60 * TimeScale}

\* as many repetitions as fit into the target
LoopsNeededFloor(target, track_len) == target \div track_len

\* "loops_needed = int(duration / music.duration) + 1"
LoopsNeeded(target, track_len) == (target \div track_len) + 1

\* "if music.duration < duration: ... music = concatenate_audioclips([music] *
\* loops_needed)", then "music = music.subclipped(0, duration)": the number of
\* repetitions (1 without the loop), the length before the trim and the
\* duration after it
Normalized(file, target, track_len) ==
    LET loops == IF track_len < target THEN LoopsNeeded(target, track_len) ELSE 1
    IN  [file |-> file, duration |-> target, loops |-> loops,
         source |-> loops * track_len]

\* the try block: the file at music_path is loaded, looped or trimmed to the
\* duration and returned, or an exception returns None: AudioFileClip cannot
\* decode the file, or a later step raises and the clip is left open
MusicLoad ==
    /\ pc = "music_load"
    /\ \/ /\ \E track_len \in TrackLengths :
                background_music' = Normalized(music_path, duration, track_len)
          /\ handles' = handles \cup {"music"}
          /\ events' = Append(events, Event("music_loaded", TRUE, music_path))
       \/ /\ background_music' = NoMusic
          /\ \/ handles' = handles
             \/ handles' = handles \cup {"music"}
          /\ events' = Append(events, Event("music_loaded", FALSE, music_path))
    /\ pc' = AfterMusic
    /\ UNCHANGED <<script, duration, segments, segment_durations,
                   configVars, asideVars,
                   music_dir, imageVars, existing_music, query, selected,
                   music_path, calls, audio, clips, video>>

\* ----------------------------------------------------- create_video
\* the narrations create_video is run on, each a script and the duration of
\* its audio file: one, two and three segments
PipelineInputs ==
    {<<(<<"w">>), 5 * TimeScale>>,
     <<Text_6_8, (124 * TimeScale) \div 10>>,
     <<Text_10_20_30, 60 * TimeScale>>}

PipelineScripts == {in[1] : in \in PipelineInputs}

\* no run beside the one of pc, no caption line, no image clip and no batch
AsideIdle ==
    /\ runs = <<>>
    /\ caption = <<>>
    /\ picture = <<>>
    /\ batch = <<>>

\* the values the variables of one call have before the asset resolution
\* sets them
ResolutionIdle ==
    /\ segment_durations = <<>>
    /\ photos = 0
    /\ image_paths = <<>>
    /\ existing_music = {}
    /\ query = 0
    /\ selected = None
    /\ music_path = None
    /\ background_music = NoMusic
    /\ audio = Narration(0)
    /\ clips = <<>>
    /\ video = NoVideo
    /\ handles = {}
    /\ calls = 0
    /\ events = <<>>
    /\ AsideIdle

\* the values the variables of one call have before the call sets them
CallIdle ==
    /\ duration = 0
    /\ segments = <<>>
    /\ ResolutionIdle

\* a VideoGenerator, its environment, and the arguments of create_video
Init ==
    /\ pc = "start"
    /\ script \in PipelineScripts
    /\ pexels_api_key \in BOOLEAN
    /\ pixabay_api_key \in BOOLEAN
    /\ freesound_api_key \in BOOLEAN
    /\ use_background_music \in BOOLEAN
    /\ music_dir \in InitialMusicDirs
    /\ image_dir = NoImages
    /\ CallIdle

\* Step 1: audio = AudioFileClip(audio_path); duration = audio.duration
LoadAudio ==
    /\ pc = "start"
    /\ \E in \in PipelineInputs :
          /\ in[1] = script
          /\ duration' = in[2]
          /\ audio' = Narration(in[2])
    /\ handles' = handles \cup {"narration"}
    /\ pc' = "parse"
    /\ UNCHANGED <<script, segments, segment_durations,
                   configVars, asideVars, music_dir,
                   imageVars, musicVars, clips, video, events>>

\* Step 2: segments = self._parse_script_segments(script_data['script'])
ParseScript ==
    /\ pc = "parse"
    /\ segments' = parse_script_segments(script)
    /\ pc' = "images"
    /\ UNCHANGED <<script, duration, segment_durations,
                   configVars, asideVars, music_dir,
                   imageVars, musicVars, renderVars, events>>

\* CompositeAudioClip([voice_audio, music]): it ends with its last layer
Mixed(voice_audio, music) ==
    [duration |-> Max(voice_audio.duration, music.duration),
     layers   |-> voice_audio.layers \o <<"music">>]

\* a mix that does not ask whether there is music
ShouldMixAlways(music) == TRUE

\* "if background_music:"
ShouldMix(music) == music # NoMusic

\* an except clause that returns the music
MixFailedReturnsMusic(voice_audio, music) ==
    [duration |-> music.duration, layers |-> <<"music">>]

\* "except Exception as e: ... return voice_audio"
MixFailed(voice_audio, music) == voice_audio

\* Step 4, after _get_background_music: "if background_music: audio =
\* self._mix_audio_with_music(audio, background_music)", which returns the
\* voice alone when the layering raises
MixAudio ==
    /\ pc = "mix"
    /\ IF ShouldMix(background_music)
       THEN \/ /\ audio' = Mixed(audio, background_music)
               /\ events' = Append(events, Event("mix", TRUE, background_music.file))
            \/ /\ audio' = MixFailed(audio, background_music)
               /\ events' = Append(events, Event("mix", FALSE, background_music.file))
       ELSE UNCHANGED <<audio, events>>
    /\ pc' = "clips"
    /\ UNCHANGED <<script, duration, segments, segment_durations,
                   configVars, asideVars,
                   music_dir, imageVars, musicVars, clips, video, handles>>

\* the test with the last image left out
UsesImageButLast(paths, i) == paths # <<>> /\ i < Len(paths) - 1

\* whether segment i (from 0) gets a background image:
\* "if image_paths and i < len(image_paths)"
UsesImage(paths, i) == paths # <<>> /\ i < Len(paths)

\* every clip with the duration of the first segment
SegDurationOfFirst(durs, i) == durs[1]

\* "seg_duration = segment_durations[i]"
SegDurationOf(durs, i) == durs[i + 1]

\* _create_text_image_clip(text, duration, is_title, title): the wrapped lines
\* of the text are drawn, line by line; is_title and title are not read
TextImageClip(seg_duration, is_title, title) ==
    [duration |-> seg_duration, drawn |-> <<"body">>]

\* the composed clip of segment i (from 0): its background, the durations of
\* its three layers (background, overlay, text), its duration (the composite
\* ends with its last layer) and what its caption shows
ComposedClip(paths, durs, i) ==
    LET seg_duration == SegDurationOf(durs, i)
        text_clip    == TextImageClip(seg_duration, i = 0,
                                      IF i = 0 THEN "title" ELSE "none")
    IN  [background |-> IF UsesImage(paths, i) THEN "image" ELSE "procedural",
         image      |-> IF UsesImage(paths, i) THEN paths[i + 1] ELSE 0 - 1,
         layers     |-> <<seg_duration, seg_duration, text_clip.duration>>,
         duration   |-> Max(seg_duration, text_clip.duration),
         is_title   |-> i = 0,
         caption    |-> text_clip.drawn]

\* Step 5: _create_clips_with_typewriter.  Loading the downloaded image of a
\* segment i may raise, and the exception leaves create_video with the clips
\* of the segments before i open
CreateClips ==
    /\ pc = "clips"
    /\ LET durs == SegmentDurations(segments, duration)
       IN  /\ segment_durations' = durs
           /\ \/ /\ clips' = [k \in 1..Len(segments) |->
                                  ComposedClip(image_paths, durs, k - 1)]
                 /\ handles' = handles \cup {"clips"}
                 /\ pc' = "concat"
                 /\ UNCHANGED events
              \/ \E i \in 0..(Len(segments) - 1) :
                    /\ UsesImage(image_paths, i)
                    /\ clips' = <<>>
                    /\ handles' = IF i > 0 THEN handles \cup {"clips"} ELSE handles
                    /\ events' = Append(events, Event("image_load", FALSE, None))
                    /\ pc' = "raised"
    /\ UNCHANGED <<script, duration, segments,
                   configVars, asideVars, music_dir, imageVars,
                   musicVars, audio, video>>

\* Step 6: video = concatenate_videoclips(clips).with_audio(audio): the clips
\* one after the other
Concatenate ==
    /\ pc = "concat"
    /\ video' = [duration |-> Sum([k \in 1..Len(clips) |-> clips[k].duration]),
                 layers   |-> audio.layers]
    /\ handles' = handles \cup {"video"}
    /\ pc' = "render"
    /\ UNCHANGED <<script, duration, segments, segment_durations,
                   configVars, asideVars,
                   music_dir, imageVars, musicVars, audio, clips, events>>

\* a failure of the encoder that is swallowed
AfterRenderFailureReturns == "cleanup"

\* video.write_videofile raises inside "with tqdm(...)", without a handler:
\* the exception leaves create_video
AfterRenderFailure == "raised"

\* Step 7: video.write_videofile(...), which may raise
Render ==
    /\ pc = "render"
    /\ \/ /\ pc' = "cleanup"
          /\ UNCHANGED events
       \/ /\ pc' = AfterRenderFailure
          /\ events' = Append(events, Event("render", FALSE, None))
    /\ UNCHANGED <<script, duration, segments, segment_durations,
                   configVars, asideVars,
                   music_dir, imageVars, musicVars, renderVars>>

\* what "video.close(); audio.close(); if background_music:
\* background_music.close()" may close: the video, with or without its clips;
\* the narration, or the mix, with or without the narration under it; the
\* music that was returned
CleanupCloses(the_audio, music) ==
    {{"video"} \cup of_video \cup of_audio \cup
         (IF music # NoMusic THEN {"music"} ELSE {}) :
       of_video \in {{}, {"clips"}},
       of_audio \in IF the_audio.layers = <<"voice">>
                    THEN {{"narration"}}
                    ELSE {{}, {"narration"}}}

\* the cleanup and "return output_path"
Cleanup ==
    /\ pc = "cleanup"
    /\ \E closed \in CleanupCloses(audio, background_music) :
          handles' = handles \ closed
    /\ pc' = "done"
    /\ UNCHANGED <<script, duration, segments, segment_durations,
                   configVars, asideVars,
                   music_dir, imageVars, musicVars, audio, clips, video, events>>

ImageStep == PexelsNoKey \/ PexelsSearch \/ PexelsDownload

MusicStep ==
    \/ GetMusicDisabled \/ GetMusicStart
    \/ PixabaySearch \/ PixabayDownload
    \/ FreesoundNoKey \/ FreesoundSearch \/ FreesoundDownload \/ FreesoundCache
    \/ MusicFallback \/ MusicLoad

Next ==
    \/ LoadAudio \/ ParseScript
    \/ ImageStep
    \/ MusicStep
    \/ MixAudio \/ CreateClips \/ Concatenate \/ Render \/ Cleanup

\* one call of create_video
Spec == Init /\ [][Next]_vars

\* ------------------------- successive calls of _get_background_music
\* a VideoGenerator about to resolve the music for a narration of 60 s
MusicInit ==
    /\ pc = "music"
    /\ script = <<"w">>
    /\ duration = 60 * TimeScale
    /\ segments = <<>>
    /\ pexels_api_key = FALSE
    /\ pixabay_api_key \in BOOLEAN
    /\ freesound_api_key \in BOOLEAN
    /\ use_background_music \in BOOLEAN
    /\ music_dir \in InitialMusicDirs
    /\ image_dir = NoImages
    /\ ResolutionIdle

\* the call has returned (to Step 4), and _get_background_music is called
\* again, with the same duration
MusicAgain ==
    /\ pc = "mix"
    /\ calls < MaxCalls
    /\ pc' = "music"
    /\ UNCHANGED <<script, duration, segments, segment_durations,
                   configVars, asideVars,
                   music_dir, imageVars, musicVars, renderVars, events>>

MusicNext == MusicStep \/ MusicAgain

SpecMusic == MusicInit /\ [][MusicNext]_vars

\* --------------------------------------------- the segment allocator
\* a narration text arrives
AllocInit ==
    /\ pc = "alloc_parse"
    /\ script \in Texts
    /\ pexels_api_key = FALSE
    /\ pixabay_api_key = FALSE
    /\ freesound_api_key = FALSE
    /\ use_background_music = FALSE
    /\ music_dir = [f \in MusicFiles |-> "absent"]
    /\ image_dir = NoImages
    /\ CallIdle

\* segments = self._parse_script_segments(script_data['script'])
AllocParse ==
    /\ pc = "alloc_parse"
    /\ segments' = parse_script_segments(script)
    /\ pc' = "alloc_durations"
    /\ UNCHANGED <<script, duration, segment_durations,
                   configVars, asideVars, music_dir,
                   imageVars, musicVars, renderVars, events>>

\* the duration computation of _create_clips_with_typewriter, for an audio
\* duration D > 0
AllocDurations ==
    /\ pc = "alloc_durations"
    /\ \E d \in Durations :
          /\ duration' = d
          /\ segment_durations' = SegmentDurations(segments, d)
    /\ pc' = "allocated"
    /\ UNCHANGED <<script, segments,
                   configVars, asideVars, music_dir, imageVars, musicVars,
                   renderVars, events>>

AllocNext == AllocParse \/ AllocDurations

SpecAlloc == AllocInit /\ [][AllocNext]_vars

\* ------------------------------- successive asset resolutions
\* a VideoGenerator about to fetch the images and the music for a narration
\* of one segment and 60 s, with both cache directories empty
CallsInit ==
    /\ pc = "images"
    /\ script = <<"w">>
    /\ duration = 60 * TimeScale
    /\ segments = parse_script_segments(<<"w">>)
    /\ pexels_api_key \in BOOLEAN
    /\ pixabay_api_key \in BOOLEAN
    /\ freesound_api_key \in BOOLEAN
    /\ use_background_music \in BOOLEAN
    /\ music_dir = [f \in MusicFiles |-> "absent"]
    /\ image_dir = NoImages
    /\ ResolutionIdle

\* the call has got its assets, and create_video is called again: Step 3 and
\* Step 4 of the next call, with a script and a narration of the same sizes
CallAgain ==
    /\ pc = "mix"
    /\ calls < MaxCalls
    /\ pc' = "images"
    /\ UNCHANGED <<script, duration, segments, segment_durations,
                   configVars, asideVars,
                   music_dir, imageVars, musicVars, renderVars, events>>

CallsNext == ImageStep \/ MusicStep \/ CallAgain

SpecCalls == CallsInit /\ [][CallsNext]_vars

\* ------------------------------ runs that share the cache directories
\* two pipeline runs (two processes running create_video) with one
\* assets/images and one assets/music
Runs == {1, 2}

\* the image file pexels_<i>.jpg
PexelsFile(i) == <<"pexels", 0, i>>

\* one entry of the record of what happened, for run r
RunEvent(r, ev, file) == [call |-> r, ev |-> ev, ok |-> TRUE, file |-> file]

\* run r is at position p, with its local variables as they are
RunAt(r, p) == [runs EXCEPT ![r].pc = p]

\* what a step of a run leaves alone: all but the directories, the record
\* and the runs
runFrame ==
    <<allocVars, configVars, photos, image_paths, musicVars, renderVars, caption,
      picture, batch>>

\* both runs are about to download the image of their one segment; each has
\* every key set and background music enabled
ConcurrentInit ==
    /\ pc = "concurrent"
    /\ script = <<"w">>
    /\ duration = 60 * TimeScale
    /\ segments = parse_script_segments(<<"w">>)
    /\ pexels_api_key = TRUE
    /\ pixabay_api_key = TRUE
    /\ freesound_api_key = TRUE
    /\ use_background_music = TRUE
    /\ music_dir \in InitialMusicDirs
    /\ image_dir = NoImages
    /\ segment_durations = <<>>
    /\ photos = 0
    /\ image_paths = <<>>
    /\ existing_music = {}
    /\ query = 0
    /\ selected = None
    /\ music_path = None
    /\ background_music = NoMusic
    /\ audio = Narration(0)
    /\ clips = <<>>
    /\ video = NoVideo
    /\ handles = {}
    /\ calls = 0
    /\ events = <<>>
    /\ caption = <<>>
    /\ picture = <<>>
    /\ batch = <<>>
    /\ runs = [r \in Runs |-> [pc |-> "image_request", image |-> None,
                                selected |-> None, music |-> None]]

\* "img_response = requests.get(img_url, ...); img_response.raise_for_status()"
\* for pexels_0.jpg: the response arrives, or the except clause returns []
RunImageRequest(r) ==
    /\ runs[r].pc = "image_request"
    /\ \/ runs' = RunAt(r, "image_open")
       \/ runs' = RunAt(r, "music_search")
    /\ UNCHANGED <<runFrame, music_dir, image_dir, events>>

\* "with open(img_path, 'wb') as f": the file is created or truncated
RunImageOpen(r) ==
    /\ runs[r].pc = "image_open"
    /\ image_dir' = Written(image_dir, 0)
    /\ events' = Append(events, RunEvent(r, "open", PexelsFile(0)))
    /\ runs' = RunAt(r, "image_write")
    /\ UNCHANGED <<runFrame, music_dir>>

\* "for chunk in ...: f.write(chunk)" and the end of the with block: the file
\* is closed and its path appended, or writing raises and [] is returned
RunImageWrite(r) ==
    /\ runs[r].pc = "image_write"
    /\ \/ runs' = [runs EXCEPT ![r].pc = "music_search", ![r].image = PexelsFile(0)]
       \/ runs' = RunAt(r, "music_search")
    /\ UNCHANGED <<runFrame, music_dir, image_dir, events>>

\* _search_pixabay_music up to "music_path = os.path.join(...)": a track is
\* selected, or the tier fails and the run goes on without a downloaded track
RunMusicSearch(r) ==
    /\ runs[r].pc = "music_search"
    /\ \/ \E q \in Queries, id \in TrackIds :
             runs' = [runs EXCEPT ![r].pc = "music_check",
                                  ![r].selected = PixabayFile(q, id)]
       \/ runs' = RunAt(r, "compose")
    /\ UNCHANGED <<runFrame, music_dir, image_dir, events>>

\* "if not os.path.exists(music_path):"
RunMusicCheck(r) ==
    /\ runs[r].pc = "music_check"
    /\ IF NeedsDownload(music_dir, runs[r].selected)
       THEN runs' = RunAt(r, "music_request")
       ELSE runs' = RunAt(r, "music_load")
    /\ UNCHANGED <<runFrame, music_dir, image_dir, events>>

\* "audio_response = requests.get(selected['url'], ...);
\* audio_response.raise_for_status()"
RunMusicRequest(r) ==
    /\ runs[r].pc = "music_request"
    /\ \/ runs' = RunAt(r, "music_open")
       \/ runs' = RunAt(r, "compose")
    /\ UNCHANGED <<runFrame, music_dir, image_dir, events>>

\* "with open(music_path, 'wb') as f": the file is created or truncated
RunMusicOpen(r) ==
    /\ runs[r].pc = "music_open"
    /\ music_dir' = [music_dir EXCEPT ![runs[r].selected] = "partial"]
    /\ events' = Append(events, RunEvent(r, "open", runs[r].selected))
    /\ runs' = RunAt(r, "music_write")
    /\ UNCHANGED <<runFrame, image_dir>>

\* "for chunk in ...: f.write(chunk)" and the end of the with block: the file
\* is complete and closed, or writing raises and the file stays as it is
RunMusicWrite(r) ==
    /\ runs[r].pc = "music_write"
    /\ \/ /\ music_dir' = [music_dir EXCEPT ![runs[r].selected] = "complete"]
          /\ runs' = RunAt(r, "music_load")
       \/ /\ UNCHANGED music_dir
          /\ runs' = RunAt(r, "compose")
    /\ UNCHANGED <<runFrame, image_dir, events>>

\* "music = AudioFileClip(music_path)": the run reads the file from now on, or
\* the file cannot be decoded and the run goes on without music
RunMusicLoad(r) ==
    /\ runs[r].pc = "music_load"
    /\ \/ /\ runs' = [runs EXCEPT ![r].pc = "compose", ![r].music = runs[r].selected]
          /\ events' = Append(events, RunEvent(r, "use", runs[r].selected))
       \/ /\ runs' = RunAt(r, "compose")
          /\ UNCHANGED events
    /\ UNCHANGED <<runFrame, music_dir, image_dir>>

\* Step 5 to Step 7: the downloaded image is loaded ("img =
\* Image.open(image_path)"), the video is rendered and the run ends
RunCompose(r) ==
    /\ runs[r].pc = "compose"
    /\ IF runs[r].image # None
       THEN events' = Append(events, RunEvent(r, "use", runs[r].image))
       ELSE UNCHANGED events
    /\ runs' = RunAt(r, "render")
    /\ UNCHANGED <<runFrame, music_dir, image_dir>>

\* the run returns
RunReturn(r) ==
    /\ runs[r].pc = "render"
    /\ runs' = RunAt(r, "done")
    /\ UNCHANGED <<runFrame, music_dir, image_dir, events>>

RunStep(r) ==
    \/ RunImageRequest(r) \/ RunImageOpen(r) \/ RunImageWrite(r)
    \/ RunMusicSearch(r) \/ RunMusicCheck(r) \/ RunMusicRequest(r)
    \/ RunMusicOpen(r) \/ RunMusicWrite(r) \/ RunMusicLoad(r)
    \/ RunCompose(r) \/ RunReturn(r)

ConcurrentNext == \E r \in Runs : RunStep(r)

SpecConcurrent == ConcurrentInit /\ [][ConcurrentNext]_vars

\* ------------------------------------------ _create_text_image_clip
\* "textwrap.wrap(paragraph, width=30, ...)": the most characters of a line
WrapWidth == 30

\* "text_width = len(line) * 35": the width of a character when the font
\* cannot measure the line
FallbackCharWidth == 35

\* the margin of "max(150, ...)", "self.resolution[0] - 150" and "x_text = 150"
MinMargin == 150

\* the widths a character of the font has on average over a line, in pixels:
\* narrow, the fallback of the code, wide
CharWidths == {20, FallbackCharWidth, 45}

\* self.resolution[0]: a landscape video, and the Shorts format main.py sets
ResolutionWidths == {1920, 1080}

\* positions are kept in half pixels, since (resolution - text_width) / 2 is
\* a float
PerPixel == 2

\* "x_text = max(150, (self.resolution[0] - text_width) / 2)" and "if x_text +
\* text_width > self.resolution[0] - 150: x_text = 150", in half pixels
XText(resolution_width, text_width) ==
    LET x_text == Max(MinMargin * PerPixel, resolution_width - text_width)
    IN  IF x_text + text_width * PerPixel > (resolution_width - MinMargin) * PerPixel
        THEN MinMargin * PerPixel
        ELSE x_text

\* a VideoGenerator about to draw the lines of a caption
CaptionInit ==
    /\ pc = "caption"
    /\ script = <<"w">>
    /\ pexels_api_key = FALSE
    /\ pixabay_api_key = FALSE
    /\ freesound_api_key = FALSE
    /\ use_background_music = FALSE
    /\ music_dir = [f \in MusicFiles |-> "absent"]
    /\ image_dir = NoImages
    /\ CallIdle

\* one turn of "for line in wrapped_lines": the width of the line is measured
\* and its left position computed
PlaceLine ==
    /\ pc = "caption"
    /\ \E resolution_width \in ResolutionWidths, chars \in 1..WrapWidth,
          char_width \in CharWidths :
          LET text_width == chars * char_width
          IN  caption' = [resolution |-> resolution_width,
                          text_width |-> text_width,
                          x_text     |-> XText(resolution_width, text_width)]
    /\ pc' = "caption_line"
    /\ UNCHANGED <<script, duration, segments, segment_durations, configVars,
                   music_dir, imageVars, musicVars, renderVars, events, runs,
                   picture, batch>>

\* "y_text += 80" and the next line
NextLine ==
    /\ pc = "caption_line"
    /\ caption' = <<>>
    /\ pc' = "caption"
    /\ UNCHANGED <<script, duration, segments, segment_durations, configVars,
                   music_dir, imageVars, musicVars, renderVars, events, runs,
                   picture, batch>>

CaptionNext == PlaceLine \/ NextLine

SpecCaption == CaptionInit /\ [][CaptionNext]_vars

\* -------------------------------------- _create_image_clip_with_effects
\* the frames per clip the specification renders, evenly spread over
\* [0, duration]
MaxFrames == 8

\* (width, height) of the downloaded images
ImageSizes ==
    {<<4000, 3000>>, <<3000, 4000>>, <<1920, 1080>>, <<1080, 1920>>,
     <<6000, 4000>>, <<1000, 1000>>, <<640, 480>>}

\* self.resolution: a landscape video, and the Shorts format main.py sets
Resolutions == {<<1920, 1080>>, <<1080, 1920>>}

\* the duration of a segment: 3 s, 5 s, 12.4 s
ClipDurations == {3 * TimeScale, 5 * TimeScale, (124 * TimeScale) \div 10}

\* the times at which frames are rendered
FrameTimes(d) == {(k * d) \div MaxFrames : k \in 0..MaxFrames}

\* "if img_ratio > target_ratio: new_height = H; new_width = int(new_height *
\* img_ratio) else: new_width = W; new_height = int(new_width / img_ratio)",
\* in exact arithmetic (the float computation gives the same integers for
\* ImageSizes and Resolutions)
CoverSize(image, resolution) ==
    IF image[1] * resolution[2] > image[2] * resolution[1]
    THEN <<(resolution[2] * image[1]) \div image[2], resolution[2]>>
    ELSE <<resolution[1], (resolution[1] * image[2]) \div image[1]>>

\* clip.resized(size): the same picture content on size pixels
Resized(clip, size) == [clip EXCEPT !.size = size]

\* "zoom_factor = 1.0 + (progress * 0.1)" with progress = t / duration, as
\* the fraction <<numerator, denominator>>
ZoomFactor(t, d) == <<10 * d + t, 10 * d>>

\* "int(h / zoom_factor)"
CropSize(full, zoom) == (full * zoom[2]) \div zoom[1]

\* a crop that starts at the far edge minus the crop size
CropOffsetFar(full, part) == full - part

\* "y1 = (h - new_h) // 2"
CropOffset(full, part) == (full - part) \div 2

\* zoom_effect(get_frame, t) on a frame of size (w, h): the crop window and
\* the size of the frame returned after "img_pil.resize((w, h), ...)"
zoom_effect(size, t, d) ==
    LET w     == size[1]
        h     == size[2]
        zoom  == ZoomFactor(t, d)
        new_h == CropSize(h, zoom)
        new_w == CropSize(w, zoom)
    IN  [t |-> t, zoom_factor |-> zoom,
         y1 |-> CropOffset(h, new_h), x1 |-> CropOffset(w, new_w),
         new_h |-> new_h, new_w |-> new_w, shape |-> <<w, h>>]

\* a VideoGenerator about to make the background of a segment
ImageInit ==
    /\ pc = "image_open"
    /\ script = <<"w">>
    /\ pexels_api_key = FALSE
    /\ pixabay_api_key = FALSE
    /\ freesound_api_key = FALSE
    /\ use_background_music = FALSE
    /\ music_dir = [f \in MusicFiles |-> "absent"]
    /\ image_dir = NoImages
    /\ CallIdle

\* what the steps of _create_image_clip_with_effects leave alone
imageFrame ==
    <<script, duration, segments, segment_durations, configVars, music_dir,
      imageVars, musicVars, renderVars, events, runs, caption, batch>>

\* "img = Image.open(image_path)" and the filters, which keep its size
ImageOpen ==
    /\ pc = "image_open"
    /\ \E image \in ImageSizes, resolution \in Resolutions, d \in ClipDurations :
          picture' = [image |-> image, resolution |-> resolution, duration |-> d,
                      size |-> image, content |-> image, base |-> image,
                      zoomed |-> FALSE, frame |-> <<>>]
    /\ pc' = "image_cover"
    /\ UNCHANGED imageFrame

\* "img = img.resize((new_width, new_height), Image.LANCZOS)" and
\* "clip = ImageClip(img_array, duration=duration)": the clip shows the whole
\* resized image
CoverResize ==
    /\ pc = "image_cover"
    /\ LET size == CoverSize(picture.image, picture.resolution)
       IN  picture' = [picture EXCEPT !.size = size, !.content = size, !.base = size]
    /\ pc' = "image_zoom"
    /\ UNCHANGED imageFrame

\* "try: clip = clip.transform(zoom_effect) except: pass"
ApplyZoom ==
    /\ pc = "image_zoom"
    /\ \E zoomed \in BOOLEAN : picture' = [picture EXCEPT !.zoomed = zoomed]
    /\ pc' = "image_size"
    /\ UNCHANGED imageFrame

\* "if clip.size != self.resolution: clip = clip.resized(self.resolution)" and
\* "return clip"
EnsureResolution ==
    /\ pc = "image_size"
    /\ picture' = IF picture.size # picture.resolution
                  THEN Resized(picture, picture.resolution)
                  ELSE picture
    /\ pc' = "image_clip"
    /\ UNCHANGED imageFrame

\* the renderer asks the clip for its frame at time t: zoom_effect runs on the
\* frame of the image clip
ZoomFrame ==
    /\ pc = "image_clip"
    /\ picture.zoomed
    /\ \E t \in FrameTimes(picture.duration) :
          picture' = [picture EXCEPT !.frame = zoom_effect(picture.base, t, picture.duration)]
    /\ pc' = "image_clip"
    /\ UNCHANGED imageFrame

\* the next turn of "for i, text in enumerate(segments)"
ImageNext ==
    /\ pc = "image_clip"
    /\ picture' = <<>>
    /\ pc' = "image_open"
    /\ UNCHANGED imageFrame

ImageClipNext ==
    \/ ImageOpen
    \/ CoverResize
    \/ ApplyZoom
    \/ EnsureResolution
    \/ ZoomFrame
    \/ ImageNext

SpecImage == ImageInit /\ [][ImageClipNext]_vars

\* ------------------------------------------------- main.py: the batch
\* the largest --count
MaxVideos == 3

\* a result dictionary, as logged and as returned
Result(i, success) == [video |-> i, success |-> success]

\* a YouTubePipeline about to read the arguments of main
BatchInit ==
    /\ pc = "batch_args"
    /\ script = <<"w">>
    /\ pexels_api_key = FALSE
    /\ pixabay_api_key = FALSE
    /\ freesound_api_key = FALSE
    /\ use_background_music = FALSE
    /\ music_dir = [f \in MusicFiles |-> "absent"]
    /\ image_dir = NoImages
    /\ CallIdle

\* what the steps of the batch leave alone
batchFrame ==
    <<script, duration, segments, segment_durations, configVars, music_dir,
      imageVars, musicVars, renderVars, events, runs, caption, picture>>

\* "args = parser.parse_args()": --count and --no-upload, before "for i in
\* range(args.count)"
ParseArgs ==
    /\ pc = "batch_args"
    /\ \E count \in 1..MaxVideos, upload \in BOOLEAN :
          batch' = [count |-> count, upload |-> upload, i |-> 0, started |-> 0,
                    video_failed |-> {}, uploads |-> <<>>, log |-> <<>>,
                    results |-> <<>>]
    /\ pc' = "batch_loop"
    /\ UNCHANGED batchFrame

\* the next turn of "for i in range(args.count)": pipeline.create_video is
\* called
StartVideo ==
    /\ pc = "batch_loop"
    /\ batch.i < batch.count
    /\ batch' = [batch EXCEPT !.started = @ + 1]
    /\ pc' = "batch_content"
    /\ UNCHANGED batchFrame

\* the loop is over
BatchEnd ==
    /\ pc = "batch_loop"
    /\ batch.i >= batch.count
    /\ pc' = "batch_done"
    /\ UNCHANGED <<batch, batchFrame>>

\* Step 1: the script is made and saved, or an exception is raised
GenerateContent ==
    /\ pc = "batch_content"
    /\ pc' \in {"batch_audio", "batch_except"}
    /\ UNCHANGED <<batch, batchFrame>>

\* Step 2: self.tts.generate_audio(...)
GenerateAudio ==
    /\ pc = "batch_audio"
    /\ pc' \in {"batch_video", "batch_except"}
    /\ UNCHANGED <<batch, batchFrame>>

\* Step 3: self.video_gen.create_video(script_data, audio_path, video_path)
\* returns, or raises as VideoGenerator.create_video does at pc = "raised"
CreateVideo ==
    /\ pc = "batch_video"
    /\ \/ /\ pc' = "batch_upload"
          /\ UNCHANGED batch
       \/ /\ pc' = "batch_except"
          /\ batch' = [batch EXCEPT !.video_failed = @ \cup {batch.i}]
    /\ UNCHANGED batchFrame

\* Step 4: "if upload:" the upload is attempted; it returns or raises
Upload ==
    /\ pc = "batch_upload"
    /\ IF batch.upload
       THEN /\ batch' = [batch EXCEPT !.uploads = Append(@, batch.i)]
            /\ pc' \in {"batch_result", "batch_except"}
       ELSE /\ UNCHANGED batch
            /\ pc' = "batch_result"
    /\ UNCHANGED batchFrame

\* log_result(result): the log is read, extended and written, or the reading
\* or the writing raises
LogResult(result, pcLogged, pcFailed) ==
    \/ /\ batch' = [batch EXCEPT !.log = Append(@, result),
                                 !.results = Append(@, result)]
       /\ pc' = pcLogged
    \/ /\ UNCHANGED batch
       /\ pc' = pcFailed

\* "result = {'success': True, ...}; self.log_result(result); return result",
\* still inside the try block
ReturnResult ==
    /\ pc = "batch_result"
    /\ LogResult(Result(batch.i, TRUE), "batch_check", "batch_except")
    /\ UNCHANGED batchFrame

\* "except Exception as e: error_result = {'success': False, ...};
\* self.log_result(error_result); return error_result": an exception of
\* log_result leaves create_video and, uncaught in main, ends the program
HandleException ==
    /\ pc = "batch_except"
    /\ LogResult(Result(batch.i, FALSE), "batch_check", "batch_raised")
    /\ UNCHANGED batchFrame

\* "if not result['success']: ... break", else the next turn
CheckResult ==
    /\ pc = "batch_check"
    /\ IF ~batch.results[Len(batch.results)].success
       THEN /\ pc' = "batch_done"
            /\ UNCHANGED batch
       ELSE /\ pc' = "batch_loop"
            /\ batch' = [batch EXCEPT !.i = @ + 1]
    /\ UNCHANGED batchFrame

BatchNext ==
    \/ ParseArgs
    \/ StartVideo
    \/ BatchEnd
    \/ GenerateContent
    \/ GenerateAudio
    \/ CreateVideo
    \/ Upload
    \/ ReturnResult
    \/ HandleException
    \/ CheckResult

SpecBatch == BatchInit /\ [][BatchNext]_vars

\* ================================================================ claims
\* C1: for every narration text and audio duration D > 0, the durations
\* assigned to the segments sum to D within 0.1 s: |sum(durations) - D| < 0.1.
C1_DurationSumWithinTolerance ==
    pc = "allocated" => Abs(Sum(segment_durations) - duration) < Tolerance

\* C1 witness: three or more segments allocated whose rounded durations do
\* not sum exactly to D
C1_Witness ==
    /\ pc = "allocated"
    /\ Len(segments) >= MinSegments
    /\ Sum(segment_durations) # duration

\* C2: every segment's assigned duration is strictly positive, the last
\* segment's (the one a drift correction is added to) included.
C2_DurationsPositive ==
    pc = "allocated" =>
        \A i \in 1..Len(segment_durations) : segment_durations[i] > 0

\* C2 witness: an allocation in which one segment holds at most a fiftieth
\* of the words
C2_Witness ==
    /\ pc = "allocated"
    /\ Len(segments) >= 2
    /\ \E i \in 1..Len(segments) :
          50 * WordCount(segments[i]) <= Sum(WordCounts(segments))

C4_AtLeastOneSegment ==
    pc \in {"alloc_durations", "allocated"} =>
        /\ Len(segments) >= 1
        /\ (/\ ParagraphSegments(script) = <<>>
            /\ LineSegments(script) = <<>>
            /\ SentenceSegments(script) = <<>>) => segments = <<script>>

\* C4 witness: a non-empty text of whitespace only, parsed
C4_Witness ==
    /\ pc = "alloc_durations"
    /\ script # <<>>
    /\ ParagraphSegments(script) = <<>>
    /\ LineSegments(script) = <<>>
    /\ SentenceSegments(script) = <<>>
    /\ segments = <<script>>
\* ------------------------------------- reading the record of events
Positions == 1..Len(events)

\* the positions of _get_background_music between its first step and its return
InMusic ==
    {"pixabay_search", "pixabay_download", "freesound", "freesound_download",
     "freesound_cache", "music_fallback", "music_load"}

\* call c of _get_background_music has returned
MusicReturned(c) == c < calls \/ (c = calls /\ pc \notin InMusic)

\* the positions of the events of call c after position j
Later(c, j) == {k \in Positions : k > j /\ events[k].call = c}

PrimaryFailedAt(j) ==
    events[j].ev \in {"pixabay_search", "pixabay_download"} /\ ~events[j].ok

SecondaryFailedAt(j) ==
    events[j].ev \in {"freesound_search", "freesound_download"} /\ ~events[j].ok

PexelsFailedAt(j) ==
    events[j].ev \in {"pexels_search", "pexels_download"} /\ ~events[j].ok

\* a tier yields a track at position k: a completed download, a selected
\* track whose file is already there, or a file found in the cache
TierYieldsAt(k) ==
    /\ events[k].ok
    /\ \/ events[k].ev \in {"pixabay_download", "freesound_download",
                            "freesound_cache", "cached_music"}
       \/ /\ events[k].ev \in {"pixabay_search", "freesound_search"}
          /\ ~(k < Len(events) /\ events[k+1].call = events[k].call
                 /\ events[k+1].ev \in {"pixabay_download", "freesound_download"})

\* C5: with no primary music credential and a secondary (Freesound)
\* credential, the secondary source's search is attempted before the local
\* cache is used or "no music" is returned.
C5_SecondaryBeforeCache ==
    (~pixabay_api_key /\ freesound_api_key) =>
        \A k \in Positions :
            events[k].ev \in {"cached_music", "freesound_cache", "no_music"} =>
                \E j \in 1..(k - 1) :
                    /\ events[j].call = events[k].call
                    /\ events[j].ev = "freesound_search"

\* C6: when the primary tier fails in any way, the secondary source is tried
\* next (when configured), the local cache only after it failed or when it
\* is not configured, "no music" only after the cache held nothing; the first
\* tier that yields a track ends the resolution; and the failure leads to
\* the next tier, never out of create_video (which only a failure to load an
\* image or to render leaves).
C6_FallbackOrder ==
    /\ \A j \in Positions :
          (PrimaryFailedAt(j) /\ MusicReturned(events[j].call)) =>
              LET later == Later(events[j].call, j)
              IN  /\ freesound_api_key =>
                        (j + 1 \in later /\ events[j+1].ev = "freesound_search")
                  /\ ~freesound_api_key =>
                        \A k \in later :
                            events[k].ev \notin {"freesound_search", "freesound_download"}
                  /\ \A k \in later :
                        events[k].ev \in {"freesound_cache", "cached_music"} =>
                            (freesound_api_key =>
                                \E m \in later : m < k /\ SecondaryFailedAt(m))
                  /\ \A k \in later :
                        events[k].ev = "no_music" =>
                            \E m \in later :
                                /\ m < k
                                /\ events[m].ev = "freesound_cache"
                                /\ ~events[m].ok
                  /\ \A k \in later :
                        TierYieldsAt(k) =>
                            /\ k + 1 \in later
                            /\ events[k+1].ev = "music_loaded"
                            /\ events[k+1].file = events[k].file
    /\ pc = "raised" => events[Len(events)].ev \in {"image_load", "render"}

\* C6 witness: the primary download failed, then the secondary search failed,
\* then the cache yielded a track, and create_video returned
C6_Witness ==
    /\ pc = "done"
    /\ \E j \in Positions :
          /\ events[j].ev = "pixabay_download" /\ ~events[j].ok
          /\ j + 2 \in Positions
          /\ events[j+1].ev = "freesound_search" /\ ~events[j+1].ok
          /\ events[j+2].ev = "freesound_cache" /\ events[j+2].ok

\* every music tier failed or is unavailable, and the cache is empty
AllMusicTiersFailed ==
    /\ use_background_music
    /\ calls = 1
    /\ pc \notin InMusic
    /\ \A f \in MusicFiles : music_dir[f] = "absent"
    /\ pixabay_api_key => \E j \in Positions : PrimaryFailedAt(j)
    /\ (pixabay_api_key /\ freesound_api_key) => \E j \in Positions : SecondaryFailedAt(j)

\* C7: when all three music tiers fail or are unavailable and the cache is
\* empty, _get_background_music returns None, nothing is mixed, and the
\* audio attached to the video is the narration track, of the narration's
\* duration.
C7_NoMusicNarrationOnly ==
    AllMusicTiersFailed =>
        /\ music_path = None
        /\ background_music = NoMusic
        /\ \A k \in Positions : events[k].ev # "mix"
        /\ audio = Narration(duration)
        /\ pc \in {"render", "cleanup", "done"} => video.layers = <<"voice">>

\* C7 witness: both credentials set, both searches failed, nothing cached,
\* and the video was rendered
C7_Witness ==
    /\ pc = "done"
    /\ AllMusicTiersFailed
    /\ pixabay_api_key
    /\ freesound_api_key

\* C8: _download_pexels_images returns to its caller with the empty list on
\* a missing credential, an empty result and any failure of the search or of
\* a download, also after some images were downloaded; without a credential
\* it issues no request.
C8_PexelsFailureGivesEmptyList ==
    /\ ~pexels_api_key =>
          \A k \in Positions : events[k].ev \notin {"pexels_search", "pexels_download"}
    /\ pc \notin {"start", "parse", "images", "image_download"} =>
          ((~pexels_api_key \/ photos = 0 \/ \E k \in Positions : PexelsFailedAt(k))
              => image_paths = <<>>)
    /\ pc = "raised" => ~PexelsFailedAt(Len(events))

\* C8 witness: a download failed after another had succeeded, and the
\* function returned the empty list
C8_Witness ==
    /\ pc = "music"
    /\ image_paths = <<>>
    /\ Len(events) >= 3
    /\ events[Len(events)].ev = "pexels_download" /\ ~events[Len(events)].ok
    /\ events[Len(events) - 1].ev = "pexels_download" /\ events[Len(events) - 1].ok

\* C9: for S segments and N images the effect pipeline produces exactly S
\* clips, segment i with image i as its background when i < N and with a
\* procedural background when i >= N; with no image, building the clips
\* raises nothing.
C9_OneClipPerSegment ==
    /\ pc \in {"concat", "render", "cleanup", "done"} =>
          /\ Len(clips) = Len(segments)
          /\ \A i \in 0..(Len(segments) - 1) :
                IF i < Len(image_paths)
                THEN /\ clips[i+1].background = "image"
                     /\ clips[i+1].image = image_paths[i+1]
                ELSE clips[i+1].background = "procedural"
    /\ (pc = "raised" /\ image_paths = <<>>) => events[Len(events)].ev = "render"

\* C9 witness: three segments, one image, and the video was rendered
C9_Witness ==
    /\ pc = "done"
    /\ Len(segments) = 3
    /\ Len(image_paths) = 1

\* call c selected the track of file f in the primary tier
Selected(c, f) ==
    \E k \in Positions :
        /\ events[k].call = c /\ events[k].ev = "pixabay_search"
        /\ events[k].ok /\ events[k].file = f

\* the download requests of call c for file f
DownloadsOf(c, f) ==
    {k \in Positions :
        events[k].call = c /\ events[k].ev = "pixabay_download" /\ events[k].file = f}

\* the resolution of call c ended with the cache path of file f
Resolved(c, f) ==
    \E k \in Positions :
        /\ events[k].call = c /\ events[k].ev = "music_loaded" /\ events[k].file = f

\* the conclusion of C10 for calls c and c + 1 and file f
OneDownloadTwoResolutions(c, f) ==
    /\ Cardinality(DownloadsOf(c, f) \cup DownloadsOf(c + 1, f)) = 1
    /\ DownloadsOf(c + 1, f) = {}
    /\ Resolved(c, f)
    /\ Resolved(c + 1, f)

Writing(r, f) ==
    \/ runs[r].pc = "image_write" /\ f = PexelsFile(0)
    \/ runs[r].pc = "music_write" /\ f = runs[r].selected

\* run r reads file f: it loaded the music file and has it open until it
\* returns, or it is loading its image
Using(r, f) ==
    \/ runs[r].music = f /\ runs[r].pc \in {"compose", "render"}
    \/ runs[r].image = f /\ runs[r].pc = "render"

\* the runs that opened file f for writing
WritersOf(f) ==
    {r \in Runs : \E k \in 1..Len(events) :
        events[k].call = r /\ events[k].ev = "open" /\ events[k].file = f}

\* C11: two runs against the same cache directories are safe without locking:
\* in every interleaving a cache file is written by at most one run, and no
\* run uses a cache file that another run is still writing.
C11_ConcurrentRunsSafe ==
    /\ \A k \in 1..Len(events) : Cardinality(WritersOf(events[k].file)) <= 1
    /\ \A r1 \in Runs : \A r2 \in Runs \ {r1} :
          \A f \in MusicFiles \cup {PexelsFile(0)} : ~(Using(r1, f) /\ Writing(r2, f))

\* --------------------------------------------------------------- C12
\* the image files that are there keep their contents in this step
ImagesKept == \A i \in ImageFiles : image_dir[i] > 0 => image_dir'[i] = image_dir[i]

\* the music files that are there keep their contents in this step
MusicKept == \A f \in MusicFiles : Exists(music_dir, f) => music_dir'[f] = music_dir[f]

\* C12: the asset caches (images and music) are append-only across calls:
\* once a cache file has been written, no later step of any call overwrites
\* or modifies it.
C12_CachesAppendOnly == [][ImagesKept /\ MusicKept]_vars

\* --------------------------------------------------------------- C13
\* C13: on every exit path of create_video, the normal return and an
\* exception raised at any stage, every media handle opened during the call
\* (narration, music, clips, video) has been closed when the call exits.
C13_HandlesClosedOnExit == pc \in {"done", "raised"} => handles = {}

\* --------------------------------------------------------------- C14
\* C14: every caption line, of any width, is placed with x >= 150 and
\* x + line_width <= resolution_width - 150 (positions in half pixels).
C14_CaptionWithinMargins ==
    pc = "caption_line" =>
        /\ caption.x_text >= MinMargin * PerPixel
        /\ caption.x_text + caption.text_width * PerPixel
              <= (caption.resolution - MinMargin) * PerPixel

\* --------------------------------------------------------------- C15
\* what the caption layer of clip k shows
Drawn(k) == {clips[k].caption[j] : j \in 1..Len(clips[k].caption)}

\* C15: the caption layer of the first segment, and of no other segment,
\* contains the video title above the body text.
C15_TitleOnFirstCaptionOnly ==
    \A k \in 1..Len(clips) : ("title" \in Drawn(k)) <=> (k = 1)

\* --------------------------------------------------------------- C16
\* layering the narration with the music has raised
MixHasFailed == \E k \in Positions : events[k].ev = "mix" /\ ~events[k].ok

\* the composition or the encoding has raised
CompositionFailed ==
    \E k \in Positions : events[k].ev \in {"image_load", "render"} /\ ~events[k].ok

\* C16: when the layering fails, _mix_audio_with_music returns the narration
\* unchanged and create_video goes on to compose and render with it; the call
\* fails only if the composition or the encoding fails.
C16_MixFailureKeepsNarration ==
    MixHasFailed =>
        /\ audio = Narration(duration)
        /\ pc \in {"clips", "concat", "render", "cleanup", "done", "raised"}
        /\ pc \in {"render", "cleanup", "done"} => video.layers = <<"voice">>
        /\ pc = "raised" => CompositionFailed

\* C16 witness: the layering failed and the video was rendered
C16_Witness == MixHasFailed /\ pc = "done"

\* --------------------------------------------------------------- C17
\* C17: a composition or encoding failure is fatal: once an image cannot be
\* loaded or the encoder fails, create_video has raised and never returns the
\* output path; nothing else makes it raise.
C17_CompositionFailureFatal ==
    /\ CompositionFailed => pc = "raised"
    /\ pc = "raised" => CompositionFailed
    /\ pc \in {"cleanup", "done"} => ~CompositionFailed

\* C17 witness: the encoder failed after the images and the music were there
C17_Witness ==
    /\ pc = "raised"
    /\ events[Len(events)].ev = "render"
    /\ image_paths # <<>>
    /\ background_music # NoMusic

\* --------------------------------------------------------------- C18
\* the stages in the order of the statement: allocate segments (1), resolve
\* assets (2), compose effects (3), mix audio (4), render (5)
StatedRank(p) ==
    CASE p = "start" -> 0
      [] p = "parse" -> 1
      [] p \in {"images", "image_download", "music", "pixabay_search",
                "pixabay_download", "freesound", "freesound_download",
                "freesound_cache", "music_fallback", "music_load"} -> 2
      [] p = "clips" -> 3
      [] p = "mix" -> 4
      [] p \in {"concat", "render"} -> 5
      [] OTHER -> 6

\* the stages in the order of the steps of create_video: parse the segments
\* (1), resolve the assets (2), mix the audio (3), compose the clips, with the
\* durations of the segments (4), render (5)
StepRank(p) ==
    CASE p = "start" -> 0
      [] p = "parse" -> 1
      [] p \in {"images", "image_download", "music", "pixabay_search",
                "pixabay_download", "freesound", "freesound_download",
                "freesound_cache", "music_fallback", "music_load"} -> 2
      [] p = "mix" -> 3
      [] p = "clips" -> 4
      [] p \in {"concat", "render"} -> 5
      [] OTHER -> 6

\* C18 as stated: the stages run one after the other in the order allocate
\* segments, resolve assets, compose effects, mix audio, render; no stage
\* starts before its predecessor in that order has finished.
C18_Original == [][StatedRank(pc') >= StatedRank(pc)]_vars

\* C18 amended: the stages run one after the other in the order parse
\* segments, resolve assets, mix audio, compose effects (where the durations
\* are allocated), render: every step stays in its stage or enters the next
\* one, or leaves the call by an exception, and the results of a stage exist
\* only once it was entered.
C18_StagesInStepOrder ==
    /\ [][\/ StepRank(pc') = StepRank(pc)
          \/ StepRank(pc') = StepRank(pc) + 1
          \/ pc' = "raised" /\ StepRank(pc) \in {4, 5}]_vars
    /\ [](StepRank(pc) <= 1 => segments = <<>> /\ events = <<>>)
    /\ [](StepRank(pc) <= 3 => audio = Narration(duration))
    /\ [](StepRank(pc) <= 4 => segment_durations = <<>> /\ clips = <<>>)
    /\ [](StepRank(pc) <= 5 /\ pc # "render" => video = NoVideo)

\* C18 witness: a call that mixed the music, composed three clips and
\* returned
C18_Witness ==
    /\ pc = "done"
    /\ Len(audio.layers) = 2
    /\ Len(clips) = 3

\* --------------------------------------------------------------- C19
\* C19: the clips are produced and concatenated in narration order, one per
\* segment; clip i and each of its three layers have the duration assigned to
\* segment i, and the concatenated video is as long as the segment durations
\* together.
C19_ClipsKeepSegmentDurations ==
    pc \in {"concat", "render", "cleanup", "done"} =>
        /\ Len(clips) = Len(segments)
        /\ segment_durations = SegmentDurations(segments, duration)
        /\ \A k \in 1..Len(clips) :
              /\ clips[k].duration = segment_durations[k]
              /\ \A j \in 1..3 : clips[k].layers[j] = segment_durations[k]
        /\ pc # "concat" => video.duration = Sum(segment_durations)

\* C19 witness: a rendered video of three segments of 10, 20 and 30 s
C19_Witness ==
    /\ pc = "done"
    /\ segment_durations = <<10 * TimeScale, 20 * TimeScale, 30 * TimeScale>>
    /\ video.duration = 60 * TimeScale

\* --------------------------------------------------------------- C20
\* the length of the track file the music was made from
TrackLength(music) == music.source \div music.loops

\* C20: whichever tier supplied the track, the normalized music has exactly
\* the target duration: a shorter track is repeated int(target/track_len)+1
\* times, which covers the target, and trimmed to it; a track at least as
\* long as the target is only trimmed.
C20_MusicHasTargetDuration ==
    background_music # NoMusic =>
        /\ background_music.duration = duration
        /\ background_music.source >= duration
        /\ IF TrackLength(background_music) < duration
           THEN background_music.loops =
                    (duration \div TrackLength(background_music)) + 1
           ELSE background_music.loops = 1

\* C20 witness: a track of 7 s was repeated nine times, to 63 s, for a
\* narration of 60 s
C20_Witness ==
    /\ duration = 60 * TimeScale
    /\ background_music # NoMusic
    /\ background_music.loops = 9
    /\ background_music.source = 63 * TimeScale
    /\ events[Len(events)].file # None

\* how often the request ev was issued
Requests(ev) == Cardinality({i \in DOMAIN events : events[i].ev = ev})

\* C21: in one create_video call each external request is issued at most
\* once, whatever the failures: one image search, one download per returned
\* image (of the first len(segments) ones), one Pixabay search, one Pixabay
\* download, one Freesound search and one Freesound download.
C21_NoRetries ==
    /\ Requests("pexels_search") <= 1
    /\ Requests("pexels_download") <= Min(photos, Len(segments))
    /\ Requests("pixabay_search") <= 1
    /\ Requests("pixabay_download") <= 1
    /\ Requests("freesound_search") <= 1
    /\ Requests("freesound_download") <= 1

\* a finished call in which every request was issued, the Pixabay download
\* and the Freesound download failed and two images were downloaded
C21_Witness ==
    /\ pc = "done"
    /\ Requests("pexels_search") = 1
    /\ Requests("pexels_download") = 2
    /\ Requests("pixabay_search") = 1
    /\ Requests("freesound_search") = 1
    /\ \E i \in DOMAIN events : events[i].ev = "pixabay_download" /\ ~events[i].ok
    /\ \E i \in DOMAIN events : events[i].ev = "freesound_download" /\ ~events[i].ok

\* ------------------------------------------ reading the segmentation
\* _parse_script_segments has returned
Parsed == pc \in {"alloc_durations", "allocated"}

\* C22: the strategies are tried in the order paragraph split, line split,
\* sentence grouping, each on the original text; the result is the output of
\* the first one that yields at least 3 segments, and the sentence grouping's
\* output is used only when both earlier strategies yield fewer than 3.
C22_FirstStrategyWithThreeSegments ==
    Parsed =>
        LET paragraphs == ParagraphSegments(script)
            lines      == LineSegments(script)
            grouped    == SentenceSegments(script)
        IN  /\ Len(paragraphs) >= MinSegments => segments = paragraphs
            /\ (Len(paragraphs) < MinSegments /\ Len(lines) >= MinSegments) =>
                  segments = lines
            /\ (/\ Len(paragraphs) < MinSegments
                /\ Len(lines) < MinSegments
                /\ grouped # <<>>) => segments = grouped
            /\ (segments = grouped /\ grouped \notin {paragraphs, lines}) =>
                  (Len(paragraphs) < MinSegments /\ Len(lines) < MinSegments)

\* a parsed text of which the paragraph split finds some but fewer than 3
\* segments, the line split 3, and the sentence grouping something else
C22_Witness ==
    /\ Parsed
    /\ Len(ParagraphSegments(script)) \in 1..(MinSegments - 1)
    /\ Len(LineSegments(script)) >= MinSegments
    /\ segments = LineSegments(script)
    /\ segments # SentenceSegments(script)
    /\ segments # ParagraphSegments(script)

\* the sentences the grouping loop runs over
Sentences == StrippedNonEmpty(SplitSentences(script, 1, <<>>))

\* the sentence grouping produced the segments
SentenceGroupingUsed ==
    /\ Parsed
    /\ Len(ParagraphSegments(script)) < MinSegments
    /\ Len(LineSegments(script)) < MinSegments
    /\ Sentences # <<>>

\* the first sentence of the group that sentence k belongs to, closed being
\* the set of sentences after which a group was closed
GroupStart(closed, k) ==
    LET before == {c \in closed : c < k}
    IN  IF before = {} THEN 1
        ELSE (CHOOSE c \in before : \A d \in before : d <= c) + 1

\* the words of the sentences a..b
GroupWords(a, b) ==
    SumTo([i \in 1..(b - a + 1) |-> WordCount(Sentences[a + i - 1])], b - a + 1)

\* the group of the sentences a..b has reached 30 words or 3 sentences
GroupFull(a, b) ==
    GroupWords(a, b) >= MaxSegmentWords \/ b - a + 1 >= MaxSegmentSentences

\* the j-th group end, the last sentence being the end of the flushed group
GroupEnd(closed, j) ==
    LET ends == closed \cup {Len(Sentences)}
    IN  CHOOSE e \in ends : Cardinality({x \in ends : x <= e}) = j

\* the segments of the grouping that closes a group after the sentences in closed
GroupingOf(closed) ==
    [j \in 1..Cardinality(closed \cup {Len(Sentences)}) |->
        JoinSpace(SubSeq(Sentences, GroupStart(closed, GroupEnd(closed, j)),
                         GroupEnd(closed, j)))]

\* C23: the sentence grouping takes the sentences in order and closes a
\* segment exactly when it first reaches 30 words or 3 sentences; no segment
\* has more than 3 sentences, and the sentences left at the end are flushed
\* as a final non-empty segment.
C23_GreedyGrouping ==
    SentenceGroupingUsed =>
        \E closed \in SUBSET (1..Len(Sentences)) :
            /\ \A k \in 1..Len(Sentences) :
                  k \in closed <=> GroupFull(GroupStart(closed, k), k)
            /\ \A k \in 1..Len(Sentences) :
                  k - GroupStart(closed, k) + 1 <= MaxSegmentSentences
            /\ segments = GroupingOf(closed)
            /\ \A j \in 1..Len(segments) : segments[j] # <<>>

\* a text of which the first two sentences reach 30 words and close a segment,
\* and whose last sentence is flushed as a segment of its own
C23_Witness ==
    /\ SentenceGroupingUsed
    /\ Len(Sentences) = 3
    /\ WordCount(Sentences[1]) < MaxSegmentWords
    /\ WordCount(Sentences[1]) + WordCount(Sentences[2]) >= MaxSegmentWords
    /\ Len(segments) = 2
    /\ segments[2] = Sentences[3]

RECURSIVE WordEnd(_, _)
\* the position after the run of non-whitespace tokens that starts at i
WordEnd(s, i) == IF i <= Len(s) /\ ~IsSpace(s[i]) THEN WordEnd(s, i + 1) ELSE i

RECURSIVE Chunks(_)
\* the whitespace-separated pieces of s, in order: the words of the text, the
\* token of a phrase standing for its words
Chunks(s) ==
    IF s = <<>> THEN <<>>
    ELSE IF IsSpace(Head(s)) THEN Chunks(Tail(s))
    ELSE LET e == WordEnd(s, 1)
         IN  <<SubSeq(s, 1, e - 1)>> \o Chunks(SubSeq(s, e, Len(s)))

RECURSIVE SegmentChunks(_)
\* the words of the segments, in segment order
SegmentChunks(segs) ==
    IF segs = <<>> THEN <<>> ELSE Chunks(Head(segs)) \o SegmentChunks(Tail(segs))

\* C28: segmentation loses no narration: the words of the segments in segment
\* order are the words of the text in their original order, none dropped,
\* duplicated or reordered, whichever strategy produced the segments.
C28_NoWordLost ==
    Parsed => SegmentChunks(segments) = Chunks(script)

\* the size keeps the proportions of the original within one pixel
AspectKept(original, size) ==
    Abs(size[1] * original[2] - size[2] * original[1]) < Max(original[1], original[2])

\* C25: the image is resized to cover the resolution with its aspect ratio
\* preserved (both resized dimensions at least the target's) and then cropped
\* to fill, so the clip returned has exactly the target resolution without the
\* image being stretched.
C25_CoverThenCrop ==
    pc = "image_clip" =>
        /\ picture.base[1] >= picture.resolution[1]
        /\ picture.base[2] >= picture.resolution[2]
        /\ AspectKept(picture.image, picture.base)
        /\ picture.size = picture.resolution
        /\ picture.content[1] * picture.size[2] = picture.content[2] * picture.size[1]

\* the renderer has asked the image clip for a frame
FrameRendered == pc = "image_clip" /\ picture.frame # <<>>

\* C26: the zoom transform is a function of the frame and t alone: at progress
\* p = t / duration in [0, 1] the zoom factor is 1.0 + 0.1 * p, between 1.0 and
\* 1.1 and non-decreasing in t; the crop window of int(h / zoom) by
\* int(w / zoom) is centred and inside the frame; the frame returned has the
\* size of the input frame; rendering a frame changes nothing else.
C26_ZoomTransform ==
    /\ [](FrameRendered =>
            LET f   == picture.frame
                d   == picture.duration
                w   == picture.base[1]
                h   == picture.base[2]
                num == f.zoom_factor[1]
                den == f.zoom_factor[2]
            IN  /\ 0 <= f.t /\ f.t <= d
                /\ 10 * d * (num - den) = den * f.t
                /\ den <= num /\ 10 * num <= 11 * den
                /\ f.t = 0 => num = den
                /\ f.t = d => 10 * num = 11 * den
                /\ f.new_h * num <= h * den /\ h * den < (f.new_h + 1) * num
                /\ f.new_w * num <= w * den /\ w * den < (f.new_w + 1) * num
                /\ 0 <= f.y1 /\ f.y1 + f.new_h <= h
                /\ 0 <= f.x1 /\ f.x1 + f.new_w <= w
                /\ Abs(f.y1 - (h - f.new_h - f.y1)) <= 1
                /\ Abs(f.x1 - (w - f.new_w - f.x1)) <= 1
                /\ f.shape = <<w, h>>)
    /\ [][(FrameRendered /\ FrameRendered') =>
            /\ picture' = [picture EXCEPT !.frame = picture'.frame]
            /\ picture'.frame.t >= picture.frame.t =>
                  picture'.frame.zoom_factor[1] * picture.frame.zoom_factor[2]
                      >= picture.frame.zoom_factor[1] * picture'.frame.zoom_factor[2]
            /\ picture'.frame.t >= picture.frame.t =>
                  /\ picture'.frame.new_h <= picture.frame.new_h
                  /\ picture'.frame.new_w <= picture.frame.new_w]_vars

\* a frame at the end of the clip, at zoom 1.1, cropped from the frame of an
\* image clip that is larger than the resolution
C26_Witness ==
    /\ FrameRendered
    /\ picture.frame.t = picture.duration
    /\ picture.frame.new_h < picture.base[2]
    /\ picture.frame.y1 > 0
    /\ picture.base # picture.resolution

\* what _get_background_music and the mixer record
MusicEvents ==
    {"pixabay_search", "pixabay_download", "freesound_search", "freesound_download",
     "freesound_cache", "cached_music", "no_music", "music_loaded", "mix"}

\* C27: with the music flag false, _get_background_music returns None at
\* once: no provider is contacted, the music directory is neither listed nor
\* written, no track is loaded, and the audio of the video is the narration
\* alone.
C27_MusicDisabled ==
    /\ [](~use_background_music =>
            /\ \A k \in Positions : events[k].ev \notin MusicEvents
            /\ pc \notin InMusic
            /\ existing_music = {}
            /\ selected = None
            /\ music_path = None
            /\ background_music = NoMusic
            /\ "music" \notin handles
            /\ pc \notin {"start"} => audio = Narration(duration)
            /\ pc \in {"render", "cleanup", "done"} => video.layers = <<"voice">>)
    /\ [][~use_background_music => music_dir' = music_dir]_vars

\* a video rendered with the flag false although a key is set and a track is
\* in the cache
C27_Witness ==
    /\ ~use_background_music
    /\ pixabay_api_key
    /\ \E f \in MusicFiles : music_dir[f] = "complete"
    /\ pc = "done"
    /\ video.layers = <<"voice">>

\* C29: every music file a resolution hands to the loader, through the
\* "exists, skip download" test or through a cache tier, is a completely
\* downloaded track: a download that failed part-way leaves no file that a
\* later step or call uses as a cached track.
C29_ReturnedTracksComplete ==
    (pc = "music_load" /\ music_path # None) => music_dir[music_path] = "complete"

\* the entries of the sequence s that are about video v
About(s, v) == {k \in DOMAIN s : s[k].video = v}

\* C30: when the video creation fails for a video, its run is aborted: no
\* upload is attempted for it, exactly one failure result (success false) is
\* logged and returned, no exception leaves the pipeline's create_video, and
\* no further video of the batch is started.
C30_VideoFailureAbortsRun ==
    \A v \in (IF pc = "batch_args" THEN {} ELSE batch.video_failed) :
        /\ \A k \in DOMAIN batch.uploads : batch.uploads[k] # v
        /\ pc \in {"batch_except", "batch_check", "batch_done"}
        /\ pc \in {"batch_check", "batch_done"} =>
              /\ Cardinality(About(batch.log, v)) = 1
              /\ Cardinality(About(batch.results, v)) = 1
              /\ \A k \in About(batch.log, v) : ~batch.log[k].success
              /\ \A k \in About(batch.results, v) : ~batch.results[k].success
        /\ batch.started = v + 1

=========================================================================
